---- MODULE Spec2Model ----
(***************************************************************************)
(* Model of the NK OAuth redirect handshake of WPI-Rowing-Dash:             *)
(*   src/src/nk-auth-handler.ts  handleNkLoginRequest, handleNkLoginReturn, *)
(*                               CleanupLocalStorage, isRedirectData        *)
(*   src/unnamed/part_000        NkAuthProvider (the useEffect wrapper)     *)
(*   src/apps/backend/src/app.ts the Express middleware stack              *)
(*                                                                         *)
(* localStorage is a sequence of key/value entries in key(i) order.  A     *)
(* stored string is modelled by what JSON.parse makes of it: either it is  *)
(* not JSON ("garbage"), or it is JSON text of a value (j).  A parsed      *)
(* value carries its type and, as 0- or 1-element sequences, the           *)
(* properties state and expiresOn (<<>> is "undefined").                   *)
(***************************************************************************)
EXTENDS Integers, Sequences, FiniteSets, TLC

VARIABLES
  store,      \* localStorage: Seq of [key, value], in key(i) order
  now,        \* Date.now()
  ticks,      \* number of clock advances so far (bounds the clock)
  issued,     \* token -> [state, at, tab, sweptBy]: what handleNkLoginRequest was
              \* called with, where, and the sweeps <<tab, returned>> run since then
  presented,  \* tokens that an earlier handleNkLoginReturn read from the URL
  loc,        \* tab -> location: [page, pathname, code, state]
  mounted,    \* tab -> the component tree is mounted (no effect threw uncaught)
  renders,    \* tab -> number of effect runs since the page was loaded
  calls,      \* tab -> [redirectCallback, redirectError] invocation counts since load
  inputs,     \* stores handed to the successive direct CleanupLocalStorage calls
  last,       \* record of the operation that produced the current state
  http        \* the backend: NODE_ENV, requests served, and the last exchange

vars == <<store, now, ticks, issued, presented, loc, mounted, renders, calls, inputs, last,
          http>>

----------------------------------------------------------------------------
(* Bounds *)

MaxTicks == 2
MaxRenders == 2
MaxRuns == 2
MaxLogins == 1
MaxRequests == 3

(* Program constants *)

NkAuthRedirectPath == "/nk-auth-redirect"
ValidityWindow == 60 * 1000

(* Small input sets *)

Null == "null"                         \* URLSearchParams.get / getItem miss
TokenSeq == <<"tokA", "tokB">>         \* the values nanoid(15) returns, in order
Tokens == { TokenSeq[i] : i \in 1..Len(TokenSeq) }
ForeignKeys == {"theme"}               \* keys other code of the origin uses
Codes == {"c1"}                        \* authorization codes
\* The n-th advance of the clock: a whole validity window, then single milliseconds.
ClockStep(n) == IF n = 1 THEN ValidityWindow ELSE 1
Undefined == "undefined"

\* Application states: objects as sets of <<property, value>>.
AppStates == { {<<"page", "home">>}, {<<"page", Undefined>>} }

----------------------------------------------------------------------------
(* JSON *)

JObject(state, expiresOn) == [type |-> "object", state |-> state, expiresOn |-> expiresOn]
JNull == [type |-> "null", state |-> <<>>, expiresOn |-> <<>>]
JNumber == [type |-> "number", state |-> <<>>, expiresOn |-> <<>>]

JsonText(j) == [kind |-> "json", j |-> j]
Garbage == [kind |-> "garbage", j |-> JNull]

\* JSON.stringify of an object value: properties whose value is undefined are dropped.
Jsonify(obj) == { p \in obj : p[2] # Undefined }

\* JSON.stringify({state, expiresOn})
JSONstringify(sessionData) ==
  JsonText(JObject(<<Jsonify(sessionData.state)>>, <<sessionData.expiresOn>>))

\* JSON.parse: throws SyntaxError on text that is not JSON.
JSONparse(text) ==
  IF text.kind = "json" THEN [threw |-> "none", j |-> text.j]
  ELSE [threw |-> "SyntaxError", j |-> JNull]

----------------------------------------------------------------------------
(* localStorage *)

Keys(s) == { s[i].key : i \in 1..Len(s) }
IndexOf(s, k) == CHOOSE i \in 1..Len(s) : s[i].key = k

\* getItem returns null for a key that is not in the store.
NoItem == [kind |-> "null", j |-> JNull]
getItem(s, k) == IF k \in Keys(s) THEN s[IndexOf(s, k)].value ELSE NoItem

removeItem(s, k) ==
  IF k \in Keys(s)
  THEN LET i == IndexOf(s, k) IN SubSeq(s, 1, i - 1) \o SubSeq(s, i + 1, Len(s))
  ELSE s

\* The key order after adding a key is user-agent defined: every position is possible.
setItem(s, k, v) ==
  IF k \in Keys(s)
  THEN { [s EXCEPT ![IndexOf(s, k)].value = v] }
  ELSE { SubSeq(s, 1, i) \o <<[key |-> k, value |-> v]>> \o SubSeq(s, i + 1, Len(s)) :
           i \in 0..Len(s) }

----------------------------------------------------------------------------
(* nk-auth-handler.ts *)

\* isRedirectData: reading a property of null throws TypeError.
isRedirectData(data) ==
  IF data.type = "null" THEN [threw |-> "TypeError", ret |-> FALSE]
  ELSE [threw |-> "none", ret |-> data.state # <<>> /\ data.expiresOn # <<>>]

\* The loop counter after one iteration: i-- on removal, then the loop's i++.
NextIndexNoDecrement(i, removed) == i + 1
NextIndex(i, removed) == IF removed THEN (i - 1) + 1 ELSE i + 1

RECURSIVE CleanupLoop(_, _, _)
CleanupLoop(s, i, visited) ==
  IF ~(i < Len(s)) THEN [store |-> s, threw |-> "none", visited |-> visited]
  ELSE LET storageKey == s[i + 1].key
           parsed == JSONparse(getItem(s, storageKey))
           guard == isRedirectData(parsed.j)
           seen == Append(visited, storageKey)
       IN IF parsed.threw # "none" THEN [store |-> s, threw |-> parsed.threw, visited |-> seen]
          ELSE IF guard.threw # "none" THEN [store |-> s, threw |-> guard.threw, visited |-> seen]
          ELSE IF guard.ret
               THEN CleanupLoop(removeItem(s, storageKey), NextIndex(i, TRUE), seen)
               ELSE CleanupLoop(s, NextIndex(i, FALSE), seen)

CleanupLocalStorage(s) == CleanupLoop(s, 0, <<>>)

\* The messages of the three errors handleNkLoginReturn throws itself.
MissingParameters == "Redirect missing code/state!"
UnknownOrExpiredToken == "Missing state in local storage!"
HandshakeExpired == "Redirect attempt expired!"

NoRet == [state |-> <<>>, code |-> Null]

\* stateBody.expiresOn > Date.now(); undefined > n is false.
ExpiryCheckThrows(stateBody, t) ==
  stateBody.expiresOn # <<>> /\ stateBody.expiresOn[1] > t

\* handleNkLoginReturn on store s, URL parameters search, at time t.
\* threw = "none" means it returned ret.
handleNkLoginReturn(s, search, t) ==
  LET code == search.code
      state == search.state
      swept == CleanupLocalStorage(s)
      stateBodyString == getItem(s, state)
      found == stateBodyString.kind # "null"
      parsed == JSONparse(stateBodyString)
      stateBody == parsed.j
      Out(st, e, r) == [store |-> st, threw |-> e, ret |-> r,
                        found |-> (code # Null /\ state # Null /\ found),
                        record |-> IF code # Null /\ state # Null /\ found
                                   THEN stateBodyString ELSE NoItem]
  IN IF code = Null \/ state = Null
     THEN IF swept.threw # "none" THEN Out(swept.store, swept.threw, NoRet)
          ELSE Out(swept.store, MissingParameters, NoRet)
     ELSE IF swept.threw # "none" THEN Out(swept.store, swept.threw, NoRet)
     ELSE IF ~found THEN Out(swept.store, UnknownOrExpiredToken, NoRet)
     ELSE IF parsed.threw # "none" THEN Out(swept.store, parsed.threw, NoRet)
     ELSE IF stateBody.type = "null" THEN Out(swept.store, "TypeError", NoRet)
     ELSE IF ExpiryCheckThrows(stateBody, t) THEN Out(swept.store, HandshakeExpired, NoRet)
     ELSE Out(swept.store, "none", [state |-> stateBody.state, code |-> code])

\* nanoid(15): an id that no earlier call returned.  The ids are
\* interchangeable, so they are handed out in the order of TokenSeq.
nanoid(given) == TokenSeq[Cardinality(given) + 1]

\* window.location.origin of the application; a string concatenation is the
\* sequence of its parts.
AppOrigin == "https://app.example"

\* The URL window.location.assign is given: origin, path and the parameters
\* of the URLSearchParams.
AuthorizeUrl(id) ==
  [origin |-> "nk", pathname |-> "/oauth/authorize", code |-> Null, state |-> id,
   response_type |-> "code", client_id |-> "logbook-visualizer",
   redirect_uri |-> <<AppOrigin, NkAuthRedirectPath>>, scope |-> "read"]

\* A variant that navigates before it saves the session.
handleNkLoginRequestAssignFirst(s, state, id, t) ==
  LET sessionData == [state |-> state, expiresOn |-> t + ValidityWindow]
  IN [stores |-> setItem(s, id, JSONstringify(sessionData)),
      location |-> AuthorizeUrl(id),
      effects |-> <<"assign", "setItem">>]

\* A variant that sweeps the store before it writes.
handleNkLoginRequestSweepFirst(s, state, id, t) ==
  LET sessionData == [state |-> state, expiresOn |-> t + ValidityWindow]
  IN [stores |-> setItem(CleanupLocalStorage(s).store, id, JSONstringify(sessionData)),
      location |-> AuthorizeUrl(id),
      effects |-> <<"setItem", "assign">>]

\* handleNkLoginRequest(state) at time t with nanoid(15) = id: the possible
\* stores after setItem, the location window.location.assign navigates to,
\* and the order of the two side effects.
handleNkLoginRequest(s, state, id, t) ==
  LET sessionData == [state |-> state, expiresOn |-> t + ValidityWindow]
  IN [stores |-> setItem(s, id, JSONstringify(sessionData)),
      location |-> AuthorizeUrl(id),
      effects |-> <<"setItem", "assign">>]

----------------------------------------------------------------------------
(* apps/backend/src/app.ts *)

\* A request: its path (as segments), the state of its JSON body, and whether
\* a route of nkAccountsRouter answers it when it gets there.
Paths == { <<"api", "nk-accounts", "me">>, <<"api", "other">>, <<>> }
Bodies == {"none", "json", "malformed"}
Requests == [path : Paths, body : Bodies, routed : BOOLEAN]
NodeEnvs == {"production", "development", Undefined}

\* createError(status) of http-errors: an Error with status, message and stack.
createError(status) ==
  [status |-> status,
   message |-> IF status = 404 THEN "Not Found" ELSE "Bad Request",
   stack |-> <<"stack">>]
NoError == [status |-> 0, message |-> "", stack |-> <<>>]

\* What a layer does: call next(), call next(err), or send a response.
CallNext == [kind |-> "next", err |-> NoError, status |-> 0, message |-> ""]
CallNextErr(err) == [kind |-> "next(err)", err |-> err, status |-> 0, message |-> ""]
Send(status, message) == [kind |-> "send", err |-> NoError, status |-> status, message |-> message]

IsPrefix(m, path) == Len(m) <= Len(path) /\ SubSeq(path, 1, Len(m)) = m

\* express.json(): a body that is not JSON is passed on as a 400 error.
ExpressJson(req) == IF req.body = "malformed" THEN CallNextErr(createError(400)) ELSE CallNext

\* app.use("/api/nk-accounts", nkAccountsRouter): runs for paths under the
\* mount point; a route answers, or the router falls through.
NkAccountsRouter(req) ==
  IF IsPrefix(<<"api", "nk-accounts">>, req.path) /\ req.routed
  THEN Send(200, "ok") ELSE CallNext

\* The forwarder that skips the error.
NotFoundForwarderPlainNext(req) == CallNext
\* Catch all 404 errors, and forward them to the error handler.
NotFoundForwarder(req) == CallNextErr(createError(404))

\* Generic error handler.
GenericErrorHandler(err, env) ==
  Send(IF err.status # 0 THEN err.status ELSE 500,
       IF env # "production" /\ err.stack # <<>> THEN err.stack[1] ELSE err.message)

\* Generic 404 handler: res.sendStatus(404).
Generic404Handler(req) == Send(404, "Not Found")

\* The layers in app.use order; the security middleware, the logger, the
\* urlencoded and cookie parsers pass the requests modelled here on.
Layers == << "helmet", "rateLimiter", "logger", "express.json", "express.urlencoded",
             "cookieParser", "nkAccountsRouter", "notFoundForwarder",
             "errorHandler", "generic404" >>

RunLayer(name, req, err, env) ==
  CASE name = "express.json" -> ExpressJson(req)
    [] name = "nkAccountsRouter" -> NkAccountsRouter(req)
    [] name = "notFoundForwarder" -> NotFoundForwarder(req)
    [] name = "errorHandler" -> GenericErrorHandler(err, env)
    [] name = "generic404" -> Generic404Handler(req)
    [] OTHER -> CallNext

RECURSIVE Dispatch(_, _, _, _, _)
\* Express walks the stack from layer i: with an error pending only error
\* handlers run, without one they are skipped; a layer that sends ends the walk.
Dispatch(i, req, err, env, acc) ==
  IF i > Len(Layers) THEN acc
  ELSE LET name == Layers[i]
           isErrorHandler == name = "errorHandler"
           pending == err # NoError
       IN IF pending # isErrorHandler THEN Dispatch(i + 1, req, err, env, acc)
          ELSE LET r == RunLayer(name, req, err, env)
                   seen == [acc EXCEPT !.reached = Append(@, name),
                                       !.err = IF isErrorHandler THEN err ELSE @]
               IN IF r.kind = "send"
                  THEN [seen EXCEPT !.responses =
                          Append(@, [by |-> name, status |-> r.status, message |-> r.message])]
                  ELSE IF r.kind = "next(err)" THEN Dispatch(i + 1, req, r.err, env, seen)
                  ELSE Dispatch(i + 1, req, NoError, env, seen)

NoExchange == [reached |-> <<>>, responses |-> <<>>, err |-> NoError]
IdleBackend == [env |-> Undefined, served |-> 0,
                req |-> [path |-> <<>>, body |-> "none", routed |-> FALSE],
                exchange |-> NoExchange]

----------------------------------------------------------------------------
(* State machine *)

AppHome == [origin |-> "app", pathname |-> "/", code |-> Null, state |-> Null]

NoLast == [op |-> "init", tab |-> "-", threw |-> "none", ret |-> NoRet,
           search |-> [code |-> Null, state |-> Null], found |-> FALSE,
           record |-> NoItem, replay |-> FALSE, callbackThrew |-> FALSE,
           before |-> <<>>, effects |-> <<>>, visited |-> <<>>, sweptBy |-> {}]

\* issued, once tab t has run a sweep that threw e.
Swept(t, e) ==
  [id \in DOMAIN issued |-> [issued[id] EXCEPT !.sweptBy = @ \cup {<<t, e = "none">>}]]

\* The sweeps run since the token k was issued, if it was.
SweptSince(k) == IF k \in DOMAIN issued THEN issued[k].sweptBy ELSE {}

\* Whether the CleanupLocalStorage call inside handleNkLoginReturn throws.
ReturnSweepThrew(s) == CleanupLocalStorage(s).threw

NoCalls == [redirectCallback |-> 0, redirectError |-> 0]

\* Values other code of the origin keeps in localStorage.
ForeignTexts == { JsonText(JObject(<<>>, <<>>)), JsonText(JNull), Garbage }

RECURSIVE StoresOver(_, _)
\* All stores whose keys are distinct members of keys and whose values are in texts.
StoresOver(keys, texts) ==
  {<<>>} \cup UNION { { <<[key |-> k, value |-> v]>> \o rest :
                          v \in texts, rest \in StoresOver(keys \ {k}, texts) } :
                      k \in keys }

InitCommon ==
  /\ now = 0
  /\ ticks = 0
  /\ issued = [k \in {} |-> 0]
  /\ presented = {}
  /\ mounted = [t \in DOMAIN loc |-> TRUE]
  /\ renders = [t \in DOMAIN loc |-> 0]
  /\ calls = [t \in DOMAIN loc |-> NoCalls]
  /\ inputs = <<>>
  /\ last = NoLast
  /\ http = IdleBackend

Init ==
  /\ store = <<>>
  /\ loc = [t \in {"A"} |-> AppHome]
  /\ InitCommon

\* The clock advances.
Tick ==
  /\ ticks < MaxTicks
  /\ now' = now + ClockStep(ticks + 1)
  /\ ticks' = ticks + 1
  /\ last' = [NoLast EXCEPT !.op = "Tick"]
  /\ UNCHANGED <<store, issued, presented, loc, mounted, renders, calls, inputs, http>>

\* Other code of the origin stores a value of its own under its own key.
ForeignWrite(k, v) ==
  /\ getItem(store, k) # v
  /\ store' \in setItem(store, k, v)
  /\ last' = [NoLast EXCEPT !.op = "ForeignWrite"]
  /\ UNCHANGED <<now, ticks, issued, presented, loc, mounted, renders, calls, inputs, http>>

\* The browser loads a page of the application in tab t (a visit, a forged
\* link, or the provider's redirect back): the component is mounted afresh.
Navigate(t, pathname, code, state) ==
  /\ pathname # NkAuthRedirectPath => (code = Null /\ state = Null)
  /\ loc' = [loc EXCEPT ![t] = [origin |-> "app", pathname |-> pathname,
                                code |-> code, state |-> state]]
  /\ mounted' = [mounted EXCEPT ![t] = TRUE]
  /\ renders' = [renders EXCEPT ![t] = 0]
  /\ calls' = [calls EXCEPT ![t] = NoCalls]
  /\ last' = [NoLast EXCEPT !.op = "Navigate", !.tab = t]
  /\ UNCHANGED <<store, now, ticks, issued, presented, inputs, http>>

\* context.handleNkLogin(state) in tab t.
Initiate(t, state) ==
  /\ loc[t].origin = "app"
  /\ mounted[t]
  /\ renders[t] >= 1
  /\ Cardinality(DOMAIN issued) < MaxLogins
  /\ Cardinality(DOMAIN issued) < Len(TokenSeq)
  /\ LET id == nanoid(DOMAIN issued)
         r == handleNkLoginRequest(store, state, id, now)
     IN /\ store' \in r.stores
          /\ loc' = [loc EXCEPT ![t] = r.location]
          /\ issued' = issued @@ (id :> [state |-> state, at |-> now, tab |-> t,
                                         sweptBy |-> {}])
          /\ last' = [NoLast EXCEPT !.op = "Initiate", !.tab = t,
                                    !.search = [code |-> Null, state |-> id],
                                    !.before = store, !.effects = r.effects]
  /\ UNCHANGED <<now, ticks, presented, mounted, renders, calls, inputs, http>>

\* The useEffect of NkAuthProvider runs in tab t, away from the redirect path.
\* An error of the sweep is caught by nothing: React unmounts the tree.
EffectElsewhere(t) ==
  /\ loc[t].origin = "app"
  /\ mounted[t]
  /\ renders[t] < MaxRenders
  /\ loc[t].pathname # NkAuthRedirectPath
  /\ LET swept == CleanupLocalStorage(store)
     IN /\ store' = swept.store
        /\ mounted' = [mounted EXCEPT ![t] = swept.threw = "none"]
        /\ issued' = Swept(t, swept.threw)
        /\ last' = [NoLast EXCEPT !.op = "Sweep", !.tab = t, !.threw = swept.threw]
  /\ renders' = [renders EXCEPT ![t] = @ + 1]
  /\ UNCHANGED <<now, ticks, presented, loc, calls, inputs, http>>

\* The useEffect of NkAuthProvider runs in tab t at the redirect path;
\* callbackThrows: whether props.redirectCallback throws.
EffectAtRedirect(t, callbackThrows) ==
  /\ loc[t].origin = "app"
  /\ mounted[t]
  /\ renders[t] < MaxRenders
  /\ loc[t].pathname = NkAuthRedirectPath
  /\ LET search == [code |-> loc[t].code, state |-> loc[t].state]
         r == handleNkLoginReturn(store, search, now)
         returned == r.threw = "none"
         caught == ~returned \/ callbackThrows
     IN /\ store' = r.store
        /\ calls' = [calls EXCEPT
                       ![t].redirectCallback = IF returned THEN @ + 1 ELSE @,
                       ![t].redirectError = IF caught THEN @ + 1 ELSE @]
        /\ presented' = presented \cup ({search.state} \cap DOMAIN issued)
        /\ last' = [NoLast EXCEPT
                      !.op = "Complete", !.tab = t, !.threw = r.threw, !.ret = r.ret,
                      !.search = search, !.found = r.found, !.record = r.record,
                      !.replay = search.state \in presented,
                      !.callbackThrew = returned /\ callbackThrows,
                      !.sweptBy = SweptSince(search.state)]
  /\ issued' = Swept(t, ReturnSweepThrew(store))
  /\ renders' = [renders EXCEPT ![t] = @ + 1]
  /\ UNCHANGED <<now, ticks, loc, mounted, inputs, http>>

Next ==
  \/ Tick
  \/ \E k \in ForeignKeys, v \in ForeignTexts : ForeignWrite(k, v)
  \/ \E t \in DOMAIN loc, pathname \in {"/", NkAuthRedirectPath},
        code \in Codes \cup {Null}, state \in Tokens \cup ForeignKeys \cup {Null} :
        Navigate(t, pathname, code, state)
  \/ \E t \in DOMAIN loc, state \in AppStates : Initiate(t, state)
  \/ \E t \in DOMAIN loc : EffectElsewhere(t)
  \/ \E t \in DOMAIN loc, callbackThrows \in BOOLEAN : EffectAtRedirect(t, callbackThrows)

Spec == Init /\ [][Next]_vars

\* Two tabs of the application on the one localStorage.
InitTabs ==
  /\ store = <<>>
  /\ loc = [t \in {"A", "B"} |-> AppHome]
  /\ InitCommon

\* The two tabs within one validity window: the clock stands still, the pages
\* loaded are '/' and redirects carrying issued tokens, callbacks do not throw.
NextTabs ==
  \/ \E k \in ForeignKeys, v \in ForeignTexts : ForeignWrite(k, v)
  \/ \E t \in DOMAIN loc, pathname \in {"/", NkAuthRedirectPath},
        code \in Codes \cup {Null}, state \in DOMAIN issued \cup {Null} :
        Navigate(t, pathname, code, state)
  \/ \E t \in DOMAIN loc, state \in AppStates : Initiate(t, state)
  \/ \E t \in DOMAIN loc : EffectElsewhere(t)
  \/ \E t \in DOMAIN loc : EffectAtRedirect(t, FALSE)

SpecTabs == InitTabs /\ [][NextTabs]_vars

\* The backend serves requests; NODE_ENV is fixed when the process starts.
InitBackend ==
  /\ store = <<>>
  /\ loc = [t \in {"A"} |-> AppHome]
  /\ now = 0
  /\ ticks = 0
  /\ issued = [k \in {} |-> 0]
  /\ presented = {}
  /\ mounted = [t \in DOMAIN loc |-> TRUE]
  /\ renders = [t \in DOMAIN loc |-> 0]
  /\ calls = [t \in DOMAIN loc |-> NoCalls]
  /\ inputs = <<>>
  /\ last = NoLast
  /\ \E env \in NodeEnvs : http = [IdleBackend EXCEPT !.env = env]

HandleRequest(req) ==
  /\ http.served < MaxRequests
  /\ http' = [http EXCEPT !.served = @ + 1, !.req = req,
                          !.exchange = Dispatch(1, req, NoError, http.env, NoExchange)]
  /\ UNCHANGED <<store, now, ticks, issued, presented, loc, mounted, renders, calls,
                 inputs, last>>

NextBackend == \E req \in Requests : HandleRequest(req)

SpecBackend == InitBackend /\ [][NextBackend]_vars

\* Direct calls of CleanupLocalStorage on arbitrary stores.
SampleTexts ==
  { JsonText(JObject(<<{}>>, <<0>>)),               \* a handshake, long expired
    JsonText(JObject(<<{}>>, <<ValidityWindow>>)),  \* a handshake, still valid
    JsonText(JObject(<<{}>>, <<>>)),                \* state only
    JsonText(JObject(<<>>, <<0>>)),                 \* expiresOn only
    JsonText(JObject(<<>>, <<>>)),                  \* an unrelated object
    JsonText(JNumber),
    JsonText(JNull),
    Garbage }

CleanupKeys == {"k1", "k2", "k3"}

InitCleanup ==
  /\ store \in StoresOver(CleanupKeys, SampleTexts)
  /\ loc = [t \in {"A"} |-> AppHome]
  /\ InitCommon

CleanupCall ==
  /\ Len(inputs) < MaxRuns
  /\ LET swept == CleanupLocalStorage(store)
     IN /\ store' = swept.store
        /\ last' = [NoLast EXCEPT !.op = "Cleanup", !.threw = swept.threw,
                                  !.visited = swept.visited]
  /\ inputs' = Append(inputs, store)
  /\ UNCHANGED <<now, ticks, issued, presented, loc, mounted, renders, calls, http>>

NextCleanup == CleanupCall

\* handleNkLoginRequest called on arbitrary stores (entries of other tabs and
\* of other code included), in a tab whose effect has run.
InitInitiate ==
  /\ store \in StoresOver(CleanupKeys, SampleTexts)
  /\ now \in {0, 1, ValidityWindow}
  /\ ticks = 0
  /\ issued = [k \in {} |-> 0]
  /\ presented = {}
  /\ loc = [t \in {"A"} |-> AppHome]
  /\ mounted = [t \in DOMAIN loc |-> TRUE]
  /\ renders = [t \in DOMAIN loc |-> 1]
  /\ calls = [t \in DOMAIN loc |-> NoCalls]
  /\ inputs = <<>>
  /\ last = NoLast
  /\ http = IdleBackend

NextInitiate == \E t \in DOMAIN loc, state \in AppStates : Initiate(t, state)

SpecInitiate == InitInitiate /\ [][NextInitiate]_vars

SpecCleanup == InitCleanup /\ [][NextCleanup]_vars

TypeOK ==
  /\ now \in Nat
  /\ ticks \in 0..MaxTicks
  /\ \A t \in DOMAIN loc : renders[t] \in 0..MaxRenders

----------------------------------------------------------------------------
(* Properties *)

\* A stored string whose parsed value has both state and expiresOn.
IsHandshakeText(text) ==
  text.kind = "json" /\ text.j.type = "object"
  /\ text.j.state # <<>> /\ text.j.expiresOn # <<>>

HandshakeKeys(s) == { s[i].key : i \in { n \in 1..Len(s) : IsHandshakeText(s[n].value) } }

IsOther(entry) == ~IsHandshakeText(entry.value)
WithoutHandshakes(s) == SelectSeq(s, IsOther)

Completed == last.op = "Complete"
BothParameters == last.search.code # Null /\ last.search.state # Null

\* C1: Initiate(S) followed, within the validity window and with the record
\* still in the store, by Complete on state=<issued token>&code=c returns
\* exactly {state: S, code: c} and does not fail.
C1_RoundTrip ==
  (/\ Completed
   /\ BothParameters
   /\ last.search.state \in DOMAIN issued
   /\ last.found
   /\ now <= issued[last.search.state].at + ValidityWindow)
  => (/\ last.threw = "none"
      /\ last.ret = [state |-> <<issued[last.search.state].state>>,
                     code |-> last.search.code])

\* C2: when Complete finds a stored handshake record, it fails with
\* HandshakeExpired if and only if the record's expiresOn is strictly
\* earlier than the current time.
C2_ExpiryDecision ==
  (Completed /\ last.found /\ IsHandshakeText(last.record))
  => ((last.threw = HandshakeExpired) <=> (last.record.j.expiresOn[1] < now))

\* C3: after any Complete attempt, returned or failed, the store holds no
\* pending-handshake-shaped entry.
C3_NoHandshakeAfterComplete ==
  Completed => HandshakeKeys(store) = {}

\* C4: a Complete attempt on a URL lacking code or state fails with
\* MissingParameters and nothing else, and leaves no pending-handshake entry.
C4_MissingParameters ==
  (Completed /\ ~BothParameters)
  => (last.threw = MissingParameters /\ HandshakeKeys(store) = {})

\* C5: a Complete attempt whose URL has code and state, with nothing stored
\* under the state value, fails with UnknownOrExpiredToken whatever else the
\* store holds.
C5_UnknownToken ==
  (Completed /\ BothParameters /\ ~last.found)
  => last.threw = UnknownOrExpiredToken

\* C6: a Complete attempt presenting an issued token that an earlier Complete
\* attempt already presented fails with UnknownOrExpiredToken.
C6_SingleUse ==
  (Completed /\ BothParameters /\ last.replay)
  => last.threw = UnknownOrExpiredToken

\* C6, its core: a Complete attempt presenting an issued token that an earlier
\* Complete attempt already presented never returns {state, code}.
C6_NoReplayReturn ==
  (Completed /\ BothParameters /\ last.replay) => last.threw # "none"

\* C7: Cleanup removes exactly the entries whose value has both state and
\* expiresOn, and leaves every other entry in place, key and value unchanged.
C7_SweepIsolation ==
  last.op = "Cleanup" => store = WithoutHandshakes(inputs[Len(inputs)])

\* C7 restricted to the calls of Cleanup that do not raise.
C7_WhenCleanupReturns ==
  (last.op = "Cleanup" /\ last.threw = "none")
  => store = WithoutHandshakes(inputs[Len(inputs)])

\* C8: Cleanup never raises, whatever the store holds, and still removes all
\* pending-handshake entries.
C8_CleanupNeverRaises ==
  last.op = "Cleanup" => (last.threw = "none" /\ HandshakeKeys(store) = {})

\* C9: Cleanup on a store without pending-handshake entries changes nothing,
\* and a second Cleanup in a row leaves the store the first one left.
C9_IdempotentCleanup ==
  /\ (last.op = "Cleanup" /\ HandshakeKeys(inputs[Len(inputs)]) = {})
       => store = inputs[Len(inputs)]
  /\ Len(inputs) >= 2 => store = inputs[Len(inputs)]

\* C9 witness: a second Cleanup in a row, after a first one that removed entries.
C9_Witness ==
  /\ Len(inputs) = 2
  /\ HandshakeKeys(inputs[1]) # {}
  /\ inputs[2] # inputs[1]

\* The entries of a store, whatever their order.
Entries(s) == { s[i] : i \in 1..Len(s) }

\* C11: handleNkLoginRequest(S) at time t adds exactly one entry, under the
\* fresh token, holding the JSON record {state: S, expiresOn: t + 60000}, and
\* removes or changes no other entry (earlier pending handshakes included).
C11_InitiateFrame ==
  last.op = "Initiate" =>
    LET id == last.search.state
        S == issued[id].state
        written == [key |-> id,
                    value |-> [kind |-> "json",
                               j |-> [type |-> "object",
                                      state |-> << { p \in S : p[2] # "undefined" } >>,
                                      expiresOn |-> << issued[id].at + 60000 >>]]]
    IN /\ id \notin Keys(last.before)
       /\ Len(store) = Len(last.before) + 1
       /\ Entries(store) = Entries(last.before) \cup {written}

\* C11 witness: an Initiate on a store that held an earlier pending handshake.
C11_Witness ==
  /\ last.op = "Initiate"
  /\ HandshakeKeys(last.before) # {}
  /\ HandshakeKeys(last.before) \subseteq HandshakeKeys(store)

\* C12: Complete returns {state, code} only when the value stored under the
\* URL's state parameter is a pending-handshake record written by an Initiate;
\* a state parameter naming an unrelated entry makes it fail.
C12_ForgedStateRejected ==
  (Completed /\ last.threw = "none")
  => (/\ last.search.state \in DOMAIN issued
      /\ IsHandshakeText(last.record)
      /\ last.ret.state # <<>>)

\* C13: an effect run away from the redirect path removes every
\* pending-handshake entry and invokes neither callback (Complete is not run:
\* no token is presented).
C13_SweepElsewhere ==
  last.op = "Sweep"
  => (/\ HandshakeKeys(store) = {}
      /\ calls[last.tab] = NoCalls
      /\ last.search.state = Null)

\* C13 restricted to the sweeps that do not raise.
C13_WhenSweepReturns ==
  (last.op = "Sweep" /\ last.threw = "none")
  => (HandshakeKeys(store) = {} /\ calls[last.tab] = NoCalls)

\* C14: when a sweep of another tab ran between a tab's Initiate and its
\* Complete, the Complete fails with UnknownOrExpiredToken (the record is
\* gone); when no sweep ran in between, the record is still there.
C14_CrossTabSweep ==
  (/\ Completed
   /\ BothParameters
   /\ last.search.state \in DOMAIN issued
   /\ issued[last.search.state].tab = last.tab)
  => (/\ (\E w \in last.sweptBy : w[1] # last.tab)
           => (~last.found /\ last.threw = UnknownOrExpiredToken)
      /\ last.sweptBy = {} => last.found)

\* C14 restricted to sweeps of the other tab that returned: the record is gone.
C14_WhenSweepReturns ==
  (/\ Completed
   /\ BothParameters
   /\ last.search.state \in DOMAIN issued
   /\ issued[last.search.state].tab = last.tab)
  => (/\ (\E w \in last.sweptBy : w[1] # last.tab /\ w[2]) => ~last.found
      /\ last.sweptBy = {} => last.found)

\* C15: handleNkLoginRequest saves the record before it navigates, and the URL
\* it navigates to has state = the key the record was saved under,
\* response_type=code, scope=read and redirect_uri = origin + /nk-auth-redirect.
C15_InitiateUrl ==
  last.op = "Initiate" =>
    LET url == loc[last.tab]
        IsFirst(e, f) == \E i, j \in 1..Len(last.effects) :
                           i < j /\ last.effects[i] = e /\ last.effects[j] = f
    IN /\ IsFirst("setItem", "assign")
       /\ Keys(store) \ Keys(last.before) = {url.state}
       /\ IsHandshakeText(getItem(store, url.state))
       /\ url.origin = "nk"
       /\ url.response_type = "code"
       /\ url.scope = "read"
       /\ url.redirect_uri = <<"https://app.example", "/nk-auth-redirect">>

\* C15 witness: a login has navigated the tab to the provider with its token.
C15_Witness ==
  /\ last.op = "Initiate"
  /\ loc[last.tab].origin = "nk"
  /\ loc[last.tab].state \in Keys(store)
  /\ Len(last.before) >= 1

\* A store all of whose values are JSON text of objects.
AllObjects(s) ==
  \A i \in 1..Len(s) : s[i].value.kind = "json" /\ s[i].value.j.type = "object"

KeySeq(s) == [i \in 1..Len(s) |-> s[i].key]

\* C16: on a store of well-formed JSON object entries the loop of Cleanup ends
\* without an error, having examined every entry exactly once, in key order.
C16_CleanupExhaustive ==
  (last.op = "Cleanup" /\ AllObjects(inputs[Len(inputs)]))
  => (last.threw = "none" /\ last.visited = KeySeq(inputs[Len(inputs)]))

\* C16 witness: a Cleanup of three object entries, two adjacent ones removed.
C16_Witness ==
  /\ last.op = "Cleanup"
  /\ Len(inputs) = 1
  /\ AllObjects(inputs[1])
  /\ Len(inputs[1]) = 3
  /\ IsHandshakeText(inputs[1][1].value)
  /\ IsHandshakeText(inputs[1][2].value)
  /\ ~IsHandshakeText(inputs[1][3].value)
  /\ Len(store) = 1

Served == http.served >= 1
RouterAnswered ==
  \E i \in 1..Len(http.exchange.responses) : http.exchange.responses[i].by = "nkAccountsRouter"

\* The one response the generic error handler sends for a 404 error.
IsNotFoundReply(responses) ==
  /\ Len(responses) = 1
  /\ responses[1].by = "errorHandler"
  /\ responses[1].status = 404
  /\ responses[1].message = IF http.env # "production" THEN "stack" ELSE "Not Found"

Reached(name) == \E i \in 1..Len(http.exchange.reached) : http.exchange.reached[i] = name

\* C17 as stated: every request that no router answers gets exactly one
\* response, from the generic error handler, with status 404 and the stack
\* (outside production) or the message; the generic 404 handler is not reached.
C17_FallthroughAsStated ==
  (Served /\ ~RouterAnswered)
  => (IsNotFoundReply(http.exchange.responses) /\ ~Reached("generic404"))

\* C17 amended: every request gets exactly one response and never reaches the
\* generic 404 handler; a request that reaches the 404 forwarder gets it from
\* the generic error handler with status 404; a request whose body the JSON
\* parser rejects gets it from the same handler with the parser's status 400.
C17_Fallthrough ==
  Served =>
    /\ Len(http.exchange.responses) = 1
    /\ ~Reached("generic404")
    /\ Reached("notFoundForwarder") => IsNotFoundReply(http.exchange.responses)
    /\ ~RouterAnswered => http.exchange.responses[1].by = "errorHandler"
    /\ (~RouterAnswered /\ ~Reached("notFoundForwarder"))
         => (http.req.body = "malformed" /\ http.exchange.responses[1].status = 400)

\* C17 witness: in production, a request outside the router's mount point has
\* been answered 404 "Not Found" by the generic error handler.
C17_Witness ==
  /\ Served
  /\ http.env = "production"
  /\ http.req.path = <<"api", "other">>
  /\ Reached("notFoundForwarder")
  /\ http.exchange.responses = <<[by |-> "errorHandler", status |-> 404, message |-> "Not Found"]>>

\* C10: per page load at the redirect path, once the effect has run, exactly
\* one callback has been invoked exactly once.
C10_OneOutcome ==
  \A t \in DOMAIN loc :
    (loc[t].origin = "app" /\ loc[t].pathname = NkAuthRedirectPath /\ renders[t] >= 1)
    => calls[t].redirectCallback + calls[t].redirectError = 1

====
